---- MODULE Spec2Model ----
(***************************************************************************)
(* Model of cdk/lib/cdk-stack.ts: the CdkStack constructor, which builds   *)
(* five resource descriptors in program order (bucket, hostedZone,         *)
(* certificate, distribution, DNSRecord) for the domain BASE_DOMAIN.       *)
(*                                                                         *)
(* A descriptor is a record holding the properties the constructor passes; *)
(* a reference to another construct is the referenced record itself, as    *)
(* the TypeScript code passes the object.                                  *)
(***************************************************************************)
EXTENDS Naturals, Sequences, FiniteSets

\* Number of times the program (one `new CdkStack(...)`) is run in a behaviour.
MaxBuilds == 2

\* Values BASE_DOMAIN (line 10) may be set to; the first is the literal of the source.
Domains == {"<YOUR_DOMAIN_HERE>", "example.org", "example.com"}

\* Regions props.env.region may name (the ambient deployment region).
Regions == {"us-east-1", "eu-west-1", "sa-east-1"}

VARIABLES
    BASE_DOMAIN,   \* the module constant of line 10
    zones,         \* domain names that have a hosted zone in the account (environment)
    status,        \* "idle" | "running" | "returned" | "failed" | "synthed"
    pc,            \* index in Statements of the next statement of the constructor
    this,          \* the stack under construction: [id, region]
    bucket,        \* the constructor's locals; undefined until assigned
    hostedZone,
    certificate,
    distribution,
    DNSRecord,
    err,           \* the exception that ended the constructor, or "none"
    runs,          \* constructor invocations so far
    lookups,       \* zone lookups made by the current construction
    built,         \* history: the stack and graph of every construction that returned
    engine         \* graphs handed to the provisioning engine

vars == <<BASE_DOMAIN, zones, status, pc, this, bucket, hostedZone, certificate,
          distribution, DNSRecord, err, runs, lookups, built, engine>>

\* A local that has not been assigned yet.
undefined == [kind |-> "undefined"]

----------------------------------------------------------------------------
(* Program order of the constructor body.                                  *)

\* The order with the distribution declared ahead of the certificate.
StatementsDistributionFirst ==
    <<"bucket", "hostedZone", "distribution", "certificate", "DNSRecord">>

Statements ==
    <<"bucket", "hostedZone", "certificate", "distribution", "DNSRecord">>

At(s) == status = "running" /\ pc \in DOMAIN Statements /\ Statements[pc] = s

----------------------------------------------------------------------------
(* The descriptors, as the constructor declares them.                      *)

\* The bucket of the walkthrough's first version (public website hosting).
BucketPublic(scope) ==
    [kind |-> "Bucket", id |-> "website-bucket", stack |-> scope.id,
     encryption |-> "UNENCRYPTED", publicReadAccess |-> TRUE,
     websiteIndexDocument |-> "index.html"]

\* A bucket whose descriptor carries the ambient region.
BucketPerRegion(scope) ==
    [kind |-> "Bucket", id |-> scope.region, stack |-> scope.id,
     encryption |-> "S3_MANAGED", publicReadAccess |-> FALSE,
     websiteIndexDocument |-> "none"]

Bucket(scope) ==
    [kind |-> "Bucket", id |-> "website-bucket", stack |-> scope.id,
     encryption |-> "S3_MANAGED", publicReadAccess |-> FALSE,
     websiteIndexDocument |-> "none"]

\* The reference HostedZone.fromLookup returns for a zone that exists:
\* an imported zone, not one the stack declares.
HostedZoneRef(scope, domainName) ==
    [kind |-> "HostedZone", id |-> "hosted-zone", stack |-> scope.id,
     domainName |-> domainName, imported |-> TRUE]

\* A certificate issued in the region of the stack.
CertificateInStackRegion(scope, domainName, zone) ==
    [kind |-> "Certificate", id |-> "certificate", stack |-> scope.id,
     domainName |-> domainName, hostedZone |-> zone, region |-> scope.region]

\* A certificate declared without the validation zone.
CertificateWithoutZone(scope, domainName, zone) ==
    [kind |-> "Certificate", id |-> "certificate", stack |-> scope.id,
     domainName |-> domainName, hostedZone |-> undefined, region |-> "us-east-1"]

Certificate(scope, domainName, zone) ==
    [kind |-> "Certificate", id |-> "certificate", stack |-> scope.id,
     domainName |-> domainName, hostedZone |-> zone, region |-> "us-east-1"]

S3Origin(b) == [kind |-> "S3Origin", bucket |-> b]

\* The distribution of the walkthrough's first version, given the alias.
DistributionWithoutCertificate(scope, b, domainName, cert) ==
    [kind |-> "Distribution", id |-> "website-distribution", stack |-> scope.id,
     origin |-> S3Origin(b), viewerProtocolPolicy |-> "REDIRECT_TO_HTTPS",
     domainNames |-> <<domainName>>, defaultRootObject |-> "index.html",
     certificate |-> undefined]

Distribution(scope, b, domainName, cert) ==
    [kind |-> "Distribution", id |-> "website-distribution", stack |-> scope.id,
     origin |-> S3Origin(b), viewerProtocolPolicy |-> "REDIRECT_TO_HTTPS",
     domainNames |-> <<domainName>>, defaultRootObject |-> "index.html",
     certificate |-> cert]

CloudFrontTarget(d) == [kind |-> "CloudFrontTarget", distribution |-> d]

\* A record named after the construct instead of the domain.
ARecordNamedById(scope, zone, domainName, d) ==
    [kind |-> "ARecord", id |-> "DNSRecord", stack |-> scope.id,
     zone |-> zone, recordName |-> "DNSRecord", target |-> CloudFrontTarget(d)]

ARecord(scope, zone, domainName, d) ==
    [kind |-> "ARecord", id |-> "DNSRecord", stack |-> scope.id,
     zone |-> zone, recordName |-> domainName, target |-> CloudFrontTarget(d)]

----------------------------------------------------------------------------
(* The graph: the descriptors built so far and the references among them.  *)

Graph == {bucket, hostedZone, certificate, distribution, DNSRecord} \ {undefined}

\* The constructs a descriptor refers to.
Refs(n) ==
    (CASE n.kind = "Certificate"  -> {n.hostedZone}
       [] n.kind = "Distribution" -> {n.origin.bucket, n.certificate}
       [] n.kind = "ARecord"      -> {n.zone, n.target.distribution}
       [] OTHER                   -> {}) \ {undefined}

\* Dependency edges <<dependent, dependency>>, by construct id.
Edges(g) == UNION {{<<n.id, m.id>> : m \in Refs(n)} : n \in g}

----------------------------------------------------------------------------
Init ==
    /\ BASE_DOMAIN \in Domains
    /\ zones \in SUBSET Domains
    /\ status = "idle"
    /\ pc = 1
    /\ this = [id |-> "CdkStack", region |-> "us-east-1"]
    /\ bucket = undefined
    /\ hostedZone = undefined
    /\ certificate = undefined
    /\ distribution = undefined
    /\ DNSRecord = undefined
    /\ err = "none"
    /\ runs = 0
    /\ lookups = 0
    /\ built = <<>>
    /\ engine = <<>>

\* constructor(scope, id, props) { super(scope, id, props); : a fresh stack.
Super ==
    /\ status \in {"idle", "synthed", "failed"}
    /\ runs < MaxBuilds
    /\ \E region \in Regions : this' = [id |-> "CdkStack", region |-> region]
    /\ status' = "running"
    /\ pc' = 1
    /\ bucket' = undefined
    /\ hostedZone' = undefined
    /\ certificate' = undefined
    /\ distribution' = undefined
    /\ DNSRecord' = undefined
    /\ err' = "none"
    /\ lookups' = 0
    /\ runs' = runs + 1
    /\ UNCHANGED <<BASE_DOMAIN, zones, built, engine>>

\* const bucket = new s3.Bucket(this, 'website-bucket', {...})
NewBucket ==
    /\ At("bucket")
    /\ bucket' = Bucket(this)
    /\ pc' = pc + 1
    /\ UNCHANGED <<BASE_DOMAIN, zones, status, this, hostedZone, certificate,
                   distribution, DNSRecord, err, runs, lookups, built, engine>>

\* A lookup that declares a zone of its own when none is found.
FromLookupCreating ==
    /\ At("hostedZone")
    /\ lookups' = lookups + 1
    /\ zones' = zones \cup {BASE_DOMAIN}
    /\ hostedZone' = [HostedZoneRef(this, BASE_DOMAIN) EXCEPT
                         !.imported = BASE_DOMAIN \in zones]
    /\ pc' = pc + 1
    /\ UNCHANGED <<BASE_DOMAIN, status, this, bucket, certificate,
                   distribution, DNSRecord, err, runs, built, engine>>

\* A lookup whose failure is swallowed: the constructor returns what it has.
FromLookupSwallowing ==
    /\ At("hostedZone")
    /\ lookups' = lookups + 1
    /\ IF BASE_DOMAIN \in zones
       THEN /\ hostedZone' = HostedZoneRef(this, BASE_DOMAIN)
            /\ pc' = pc + 1
       ELSE /\ hostedZone' = hostedZone
            /\ pc' = Len(Statements) + 1
    /\ UNCHANGED <<BASE_DOMAIN, zones, status, this, bucket, certificate,
                   distribution, DNSRecord, err, runs, built, engine>>

\* A lookup that assigns a placeholder reference before it reports the failure.
FromLookupPlaceholder ==
    /\ At("hostedZone")
    /\ lookups' = lookups + 1
    /\ hostedZone' = HostedZoneRef(this, BASE_DOMAIN)
    /\ IF BASE_DOMAIN \in zones
       THEN /\ pc' = pc + 1
            /\ UNCHANGED <<status, err>>
       ELSE /\ status' = "failed"
            /\ err' = "ZoneNotFound"
            /\ pc' = pc
    /\ UNCHANGED <<BASE_DOMAIN, zones, this, bucket, certificate,
                   distribution, DNSRecord, runs, built, engine>>

\* const hostedZone = route53.HostedZone.fromLookup(this, 'hosted-zone',
\*                                                  {domainName: BASE_DOMAIN})
\* The lookup reads the account's zones by domain name.  When no zone matches
\* it throws; the constructor has no try/catch, so the exception ends it with
\* pc left at this statement.
FromLookup ==
    /\ At("hostedZone")
    /\ lookups' = lookups + 1
    /\ IF BASE_DOMAIN \in zones
       THEN /\ hostedZone' = HostedZoneRef(this, BASE_DOMAIN)
            /\ pc' = pc + 1
            /\ UNCHANGED <<status, err>>
       ELSE /\ status' = "failed"
            /\ err' = "ZoneNotFound"
            /\ UNCHANGED <<hostedZone, pc>>
    /\ UNCHANGED <<BASE_DOMAIN, zones, this, bucket, certificate,
                   distribution, DNSRecord, runs, built, engine>>

\* const certificate = new acm.DnsValidatedCertificate(this, 'certificate', {...})
NewCertificate ==
    /\ At("certificate")
    /\ certificate' = Certificate(this, BASE_DOMAIN, hostedZone)
    /\ pc' = pc + 1
    /\ UNCHANGED <<BASE_DOMAIN, zones, status, this, bucket, hostedZone,
                   distribution, DNSRecord, err, runs, lookups, built, engine>>

\* const distribution = new cloudfront.Distribution(this, 'website-distribution', {...})
NewDistribution ==
    /\ At("distribution")
    /\ distribution' = Distribution(this, bucket, BASE_DOMAIN, certificate)
    /\ pc' = pc + 1
    /\ UNCHANGED <<BASE_DOMAIN, zones, status, this, bucket, hostedZone,
                   certificate, DNSRecord, err, runs, lookups, built, engine>>

\* const DNSRecord = new route53.ARecord(this, 'DNSRecord', {...})
NewARecord ==
    /\ At("DNSRecord")
    /\ DNSRecord' = ARecord(this, hostedZone, BASE_DOMAIN, distribution)
    /\ pc' = pc + 1
    /\ UNCHANGED <<BASE_DOMAIN, zones, status, this, bucket, hostedZone,
                   certificate, distribution, err, runs, lookups, built, engine>>

\* The closing brace of the constructor: it returns the finished stack.
Return ==
    /\ status = "running"
    /\ pc = Len(Statements) + 1
    /\ status' = "returned"
    /\ built' = Append(built, [stack |-> this, graph |-> Graph])
    /\ UNCHANGED <<BASE_DOMAIN, zones, pc, this, bucket, hostedZone, certificate,
                   distribution, DNSRecord, err, runs, lookups, engine>>

\* The caller (bin/cdk.ts) hands the stack of a constructor that returned to
\* the provisioning engine; a constructor that threw ends the program.
Synth ==
    /\ status = "returned"
    /\ status' = "synthed"
    /\ engine' = Append(engine, Graph)
    /\ UNCHANGED <<BASE_DOMAIN, zones, pc, this, bucket, hostedZone, certificate,
                   distribution, DNSRecord, err, runs, lookups, built>>

Next ==
    \/ Super
    \/ NewBucket
    \/ FromLookup
    \/ NewCertificate
    \/ NewDistribution
    \/ NewARecord
    \/ Return
    \/ Synth

Spec == Init /\ [][Next]_vars

----------------------------------------------------------------------------
(* Properties.                                                             *)

Kinds(g) == {n.kind : n \in g}

FiveKinds == {"Bucket", "HostedZone", "Certificate", "Distribution", "ARecord"}

Complete(g) == Cardinality(g) = 5 /\ Kinds(g) = FiveKinds

\* Every graph of the behaviour so far: the one under construction, those
\* that returned, those handed to the engine.
AllGraphs == {Graph} \cup {built[i].graph : i \in DOMAIN built}
                     \cup {engine[i] : i \in DOMAIN engine}

\* Every alias of distribution d is the domain name of the certificate attached to d.
AliasesCovered(d) ==
    \A i \in DOMAIN d.domainNames :
        /\ d.certificate # undefined
        /\ d.certificate.kind = "Certificate"
        /\ d.certificate.domainName = d.domainNames[i]

\* C1: in every graph, a distribution that lists a domain name D as an alias
\* has a certificate attached whose domain name is D; no graph, finished or
\* not, holds a distribution with an alias and no certificate.
C1_AliasHasCertificate ==
    \A g \in AllGraphs : \A d \in g :
        d.kind = "Distribution" =>
            /\ AliasesCovered(d)
            /\ d.certificate \in g

C1_Witness ==
    /\ status = "returned"
    /\ BASE_DOMAIN = "example.org"
    /\ distribution # undefined
    /\ distribution.domainNames = <<"example.org">>
    /\ distribution.certificate = certificate
    /\ certificate.domainName = "example.org"

\* C2: whatever region the stack is given, the certificate's region is us-east-1.
C2_CertificateRegionFixed ==
    /\ certificate # undefined => certificate.region = "us-east-1"
    /\ \A i \in DOMAIN built : \A n \in built[i].graph :
           n.kind = "Certificate" => n.region = "us-east-1"

C2_Witness ==
    /\ certificate # undefined
    /\ this.region = "eu-west-1"
    /\ certificate.region = "us-east-1"
    /\ Len(built) = 1
    /\ built[1].stack.region = "sa-east-1"

\* The number of entries of the alias list of the distribution r targets
\* that equal r's record name.
AliasMatches(r) ==
    Cardinality({i \in DOMAIN r.target.distribution.domainNames :
                    r.target.distribution.domainNames[i] = r.recordName})

\* C3: in every graph, also every graph handed to the engine, the alias
\* record's name equals exactly one entry of the alias list of the
\* distribution it targets, and construction never ends with RecordNameMismatch.
C3_RecordNameIsAnAlias ==
    /\ \A g \in AllGraphs : \A r \in g :
           r.kind = "ARecord" =>
               /\ r.target.distribution \in g
               /\ AliasMatches(r) = 1
    /\ err # "RecordNameMismatch"

C3_Witness ==
    /\ Len(engine) = 1
    /\ \E r \in engine[1] :
           /\ r.kind = "ARecord"
           /\ r.recordName = "example.com"
           /\ r.target.distribution.domainNames = <<"example.com">>

\* C4 as stated: when the zone lookup fails, no descriptor exists.
C4_NoDescriptorAtZoneNotFound ==
    err = "ZoneNotFound" => Graph = {}

\* C4 amended: when the zone lookup fails with ZoneNotFound, construction
\* stops at the lookup; the Origin Store descriptor already exists and no
\* zone reference, Certificate, Edge Distribution or Alias Record does.
C4_OnlyBucketAtZoneNotFound ==
    err = "ZoneNotFound" =>
        /\ status = "failed"
        /\ Statements[pc] = "hostedZone"
        /\ bucket # undefined
        /\ Graph = {bucket}
        /\ Kinds(Graph) = {"Bucket"}

C4_Witness ==
    /\ err = "ZoneNotFound"
    /\ BASE_DOMAIN = "example.org"
    /\ "example.org" \notin zones
    /\ bucket # undefined

ExpectedEdges ==
    {<<"certificate", "hosted-zone">>,
     <<"website-distribution", "website-bucket">>,
     <<"website-distribution", "certificate">>,
     <<"DNSRecord", "hosted-zone">>,
     <<"DNSRecord", "website-distribution">>}

\* Pairs <<a, c>> with <<a, b>> in R and <<b, c>> in S.
Compose(R, S) ==
    UNION {{<<r[1], x[2]>> : x \in {y \in S : y[1] = r[2]}} : r \in R}

\* The transitive closure of a relation on at most eight nodes.
Closure(E) ==
    LET R1 == E \cup Compose(E, E)
        R2 == R1 \cup Compose(R1, R1)
        R3 == R2 \cup Compose(R2, R2)
    IN  R3

Acyclic(E) == \A e \in Closure(E) : e[1] # e[2]

\* C5: the edges of a finished graph are exactly certificate -> zone,
\* distribution -> bucket, distribution -> certificate, record -> zone,
\* record -> distribution; every edge of a graph under construction is one
\* of these and points at a node of the graph; no graph has a cycle.
C5_DependencyDag ==
    \A g \in AllGraphs :
        /\ Edges(g) \subseteq ExpectedEdges
        /\ \A n \in g : Refs(n) \subseteq g
        /\ Acyclic(Edges(g))
        /\ Complete(g) => Edges(g) = ExpectedEdges
        /\ (g \in {built[i].graph : i \in DOMAIN built}) => Edges(g) = ExpectedEdges

C5_Witness ==
    /\ status = "returned"
    /\ Complete(Graph)
    /\ Edges(Graph) = ExpectedEdges

\* C6: every graph handed to the engine is the complete five-node graph of a
\* construction that returned, and a construction that failed hands nothing.
C6_AllOrNothing ==
    /\ \A i \in DOMAIN engine : Complete(engine[i])
    /\ Len(engine) <= Len(built)
    /\ \A i \in DOMAIN engine : engine[i] = built[i].graph
    /\ status = "failed" => ~ Complete(Graph) /\ Len(engine) < runs

C6_Witness ==
    /\ status = "failed"
    /\ runs = 2
    /\ bucket # undefined
    /\ engine = <<>>

Private(b) ==
    /\ b.encryption = "S3_MANAGED"
    /\ b.publicReadAccess = FALSE
    /\ b.websiteIndexDocument = "none"

\* C7: the bucket is encrypted and has neither public read access nor
\* website hosting; a distribution with an alias never has a public origin.
C7_BucketPrivate ==
    \A g \in AllGraphs : \A n \in g :
        /\ n.kind = "Bucket" => Private(n)
        /\ (n.kind = "Distribution" /\ n.domainNames # <<>>) => Private(n.origin.bucket)

C7_Witness ==
    /\ distribution # undefined
    /\ Len(distribution.domainNames) = 1
    /\ distribution.origin.bucket = bucket
    /\ bucket.encryption = "S3_MANAGED"

\* C8: any two constructions of the same domain name that returned built
\* the same descriptors with the same edges, whatever their ambient regions.
C8_Idempotent ==
    \A i, j \in DOMAIN built :
        /\ built[i].graph = built[j].graph
        /\ Edges(built[i].graph) = Edges(built[j].graph)

C8_Witness ==
    /\ Len(built) = 2
    /\ built[1].stack.region # built[2].stack.region
    /\ Complete(built[2].graph)

\* C9: a step that builds a descriptor finds all descriptors it depends on
\* already built: the certificate finds the zone reference, the distribution
\* the bucket and the certificate, the record the zone reference and the
\* distribution.
C9_BuiltAfterDependencies ==
    [][ /\ (certificate = undefined /\ certificate' # undefined)
            => hostedZone # undefined
        /\ (distribution = undefined /\ distribution' # undefined)
            => (bucket # undefined /\ certificate # undefined)
        /\ (DNSRecord = undefined /\ DNSRecord' # undefined)
            => (hostedZone # undefined /\ distribution # undefined) ]_vars

C9_Witness ==
    /\ At("DNSRecord")
    /\ distribution # undefined
    /\ distribution.certificate = certificate
    /\ certificate.hostedZone = hostedZone
    /\ DNSRecord = undefined

\* C10: no step changes the account's zones; a construction looks the zone
\* up at most once; the zone node of a graph is an imported reference.
C10_ZoneReadOnly ==
    /\ [][zones' = zones]_vars
    /\ [](lookups <= 1)
    /\ [](\A g \in AllGraphs : \A n \in g : n.kind = "HostedZone" => n.imported)

C10_Witness ==
    /\ status = "returned"
    /\ lookups = 1
    /\ BASE_DOMAIN \in zones
    /\ Cardinality(zones) = 2
    /\ DNSRecord.zone = hostedZone
    /\ certificate.hostedZone = hostedZone

====
